---- MODULE Spec2Model ----
(***************************************************************************)
(* Lock-on engine (lock_on_system/lock_on.py) and its controller bridge    *)
(* (lock_on_system/controller_link.py).                                    *)
(*                                                                         *)
(* Numbers.  The program computes in floats.  The model computes in exact  *)
(* integers: times are whole ticks, coordinates lie on a grid on which     *)
(* every origin-to-target distance is a whole number (3-4-5 triangles and  *)
(* points on one axis), and scores are compared as exact fractions.  On    *)
(* these inputs sqrt, the divisions and the comparisons of the program are *)
(* exact too or far from any rounding boundary, so both agree.             *)
(***************************************************************************)
EXTENDS Integers, Sequences, FiniteSets, TLC

\* ------------------------------------------------------------------ bounds
\* MaxTime caps the clock, MaxDt the dt of one call (dt ranges from -1),
\* MaxDeficit how far below 0 repeated negative dt may drive progress, and
\* MaxTargets the length of a target list; NumObjects is the number of
\* Target objects the caller holds where object identity matters; the
\* controller's lock events are counted up to MaxEvents.
MaxTime == 4
MaxDt == 2
MaxDeficit == 2
MaxTargets == 2
NumObjects == 2
MaxEvents == 4

\* ------------------------------------------------------- input domains
Ids == {"a", "b"}
Origins == {<<0, 0, 0>>, <<3, 0, 0>>}
Aims == {<<1, 0, 0>>, <<0, 2, 0>>, <<0, 0, 0>>}
Positions == {<<3, 0, 0>>, <<3, 4, 0>>}
Heats == {1, 5}
DtValues == (0 - 1)..MaxDt
Ranges == {4, 5}
Fovs == {45, 60}
LockTimes == {0, 2, 3}
Timeouts == {0, 1}

VARIABLES
    max_range,          \* LockOnSystem.max_range
    fov_deg,            \* LockOnSystem.fov_deg
    lock_on_time,       \* LockOnSystem.lock_on_time
    lost_lock_timeout,  \* LockOnSystem.lost_lock_timeout
    state,              \* LockOnSystem._state
    current_time,       \* LockOnSystem._current_time
    best,               \* update: the local `best` of the last call
    dt,                 \* update: the argument `dt` of the last call
    seen,               \* identifiers of the last call's visible candidates
    prev,               \* history: _state as the last call found it
    run,                \* history: the calls so far all had one best candidate
    held,               \* history: locked target visible on every tick since lock
    refreshed,          \* history: clock of the last tick the locked target was best
    last_state,         \* LockOnControllerLink._last_state
    emitted,            \* controller calls made by the last step, in order
    tracking,           \* history: identifier last passed to set_tracking_target
    lock_events,        \* history: the last on_lock / on_lock_lost call, and their count
    pick_in,            \* arguments of a _pick_best call
    pick_out,           \* its result
    heap,               \* the caller's Target objects, by address
    target_at,          \* address of the object _state.target refers to, 0 for None
    returned,           \* the LockState object status() last returned
    last_op,            \* the operation last performed on engine or returned value
    position,           \* MissileCore.position
    heading,            \* MissileCore.heading
    normalized_heading, \* MissileCore._normalized_heading
    radar,              \* MissileCore.radar
    core_call,          \* the MissileCore method last called, with its argument
    delivered           \* the on_course_update calls made during that call

engine_vars == <<state, current_time, best, dt, seen, prev, run, held, refreshed>>
config_vars == <<max_range, fov_deg, lock_on_time, lost_lock_timeout>>
link_vars == <<last_state, emitted, tracking, lock_events>>
pick_vars == <<pick_in, pick_out>>
history_vars == <<best, dt, seen, prev, run, held, refreshed>>
status_vars == <<heap, target_at, returned, last_op>>
core_vars == <<position, heading, normalized_heading, radar, core_call, delivered>>
vars == <<config_vars, engine_vars, link_vars, pick_vars, status_vars, core_vars>>

\* ------------------------------------------------------------ data types
\* Optional[Target] is None or a Target; None is its own record.
None == [none |-> TRUE]

Target(id, pos, heat) ==
    [identifier |-> id, position |-> pos, velocity |-> <<0, 0, 0>>,
     heat_signature |-> heat]

LockState(t, p, l, s) ==
    [target |-> t, progress |-> p, locked |-> l, last_seen |-> s]

EmptyState == LockState(None, 0, FALSE, 0)

\* The sensor settings _is_visible and _score read from self.
Sensor(r, f) == [max_range |-> r, fov_deg |-> f]

Self == Sensor(max_range, fov_deg)

Targets == {Target(id, pos, 1) : id \in Ids, pos \in Positions}

RECURSIVE ListsUpTo(_, _)
ListsUpTo(S, n) ==
    IF n = 0 THEN {<<>>}
    ELSE LET shorter == ListsUpTo(S, n - 1)
         IN shorter \cup {Append(l, t) : l \in {m \in shorter : Len(m) = n - 1}, t \in S}

TargetLists == ListsUpTo(Targets, MaxTargets)

Max(a, b) == IF a >= b THEN a ELSE b

Min(a, b) == IF a <= b THEN a ELSE b

\* -------------------------------------------------------------- geometry
Dot(a, b) == a[1] * b[1] + a[2] * b[2] + a[3] * b[3]

Subtract(a, b) == <<a[1] - b[1], a[2] - b[2], a[3] - b[3]>>

\* math.sqrt on the whole numbers the grid produces (all perfect squares).
RECURSIVE SqrtBetween(_, _, _)
SqrtBetween(n, lo, hi) ==
    IF lo >= hi THEN lo
    ELSE LET mid == (lo + hi + 1) \div 2
         IN IF mid <= n \div mid THEN SqrtBetween(n, mid, hi)
            ELSE SqrtBetween(n, lo, mid - 1)

Sqrt(n) == SqrtBetween(n, 0, n)

Norm(v) == Sqrt(Dot(v, v))

Distance(a, b) == Norm(Subtract(a, b))

\* cos(radians(fov))^2 as a fraction <<numerator, denominator>>.
CosSq(fov) ==
    CASE fov = 30 -> <<3, 4>>
      [] fov = 45 -> <<1, 2>>
      [] fov = 60 -> <<1, 4>>

\* dot(normalize(a), normalize(t)) >= cos(radians(fov)), for fov < 90.
\* _normalize maps a zero vector to (0, 0, 0), which makes the dot product 0.
CosAngleAtLeast(a, t, fov) ==
    LET aa == Dot(a, a)
        tt == Dot(t, t)
        d == Dot(a, t)
        c == CosSq(fov)
    IN IF aa = 0 \/ tt = 0 THEN c[1] = 0
       ELSE d >= 0 /\ d * d * c[2] >= c[1] * aa * tt

IsVisible(self, origin, aim, target_pos) ==
    LET to_target == Subtract(target_pos, origin)
        distance == Norm(to_target)
    IN IF distance > self.max_range \/ distance = 0 THEN FALSE
       ELSE CosAngleAtLeast(aim, to_target, self.fov_deg)

RECURSIVE GCD(_, _)
GCD(a, b) == IF b = 0 THEN a ELSE GCD(b, a % b)

\* The number n/d, in lowest terms.
Fraction(n, d) == <<n \div GCD(n, d), d \div GCD(n, d)>>

\* A score is a fraction <<numerator, denominator>>; <<1, 0>> is +infinity.
\* max(max_range, 1e-6) is max_range for the whole max_range >= 1 used here.
Score(self, origin, target) ==
    LET distance == Distance(origin, target.position)
    IN IF distance = 0 THEN <<1, 0>>
       ELSE Fraction(target.heat_signature * self.max_range
                         + Max(self.max_range - distance, 0) * distance,
                     distance * self.max_range)

\* score > best_score
ScoreGreaterTies(score, best_score) == score[1] * best_score[2] >= best_score[1] * score[2]

ScoreGreater(score, best_score) == score[1] * best_score[2] > best_score[1] * score[2]

\* The loop of _pick_best from targets[i] on; b = None stands for
\* best_score = -inf, which every score exceeds.
RECURSIVE PickFromUnfiltered(_, _, _, _, _, _)
PickFromUnfiltered(self, origin, aim, targets, i, b) ==
    IF i > Len(targets) THEN b
    ELSE IF b = None \/ ScoreGreater(Score(self, origin, targets[i]), Score(self, origin, b))
         THEN PickFromUnfiltered(self, origin, aim, targets, i + 1, targets[i])
         ELSE PickFromUnfiltered(self, origin, aim, targets, i + 1, b)

RECURSIVE PickFrom(_, _, _, _, _, _)
PickFrom(self, origin, aim, targets, i, b) ==
    IF i > Len(targets) THEN b
    ELSE IF ~IsVisible(self, origin, aim, targets[i].position)
         THEN PickFrom(self, origin, aim, targets, i + 1, b)
         ELSE IF b = None
                 \/ ScoreGreater(Score(self, origin, targets[i]), Score(self, origin, b))
              THEN PickFrom(self, origin, aim, targets, i + 1, targets[i])
              ELSE PickFrom(self, origin, aim, targets, i + 1, b)

PickBest(self, origin, aim, targets) == PickFrom(self, origin, aim, targets, 1, None)

VisibleIds(self, origin, aim, targets) ==
    {targets[i].identifier : i \in {j \in 1..Len(targets) :
                                       IsVisible(self, origin, aim, targets[j].position)}}

\* update reads origin, aim and targets through _pick_best only.  Sightings
\* is what the calls update(origin, aim, targets, _) can make of them: the
\* `best` each computes, with the identifiers of its visible candidates.
Sightings(self) ==
    {[best |-> PickBest(self, origin, aim, targets),
      seen |-> VisibleIds(self, origin, aim, targets)] :
        origin \in Origins, aim \in Aims, targets \in TargetLists}

SightingsOf == [self \in {Sensor(r, f) : r \in Ranges, f \in Fovs} |-> Sightings(self)]

\* ---------------------------------------------------------------- update
AdvanceClock(now, d) == now + Max(d, 0)

LostLockAtTimeout(now, seen_at, timeout) == now - seen_at >= timeout

LostLock(now, seen_at, timeout) == now - seen_at > timeout

SameTarget(b, t) == b # None /\ t # None /\ b.identifier = t.identifier

\* Lines 125-135: the engine is locked.
LockedUpdateRefreshing(st, now, b) ==
    IF SameTarget(b, st.target)
    THEN [st EXCEPT !.last_seen = now, !.target = b]
    ELSE IF LostLock(now, st.last_seen, lost_lock_timeout) THEN EmptyState
         ELSE [st EXCEPT !.last_seen = now]

LockedUpdateNoRefresh(st, now, b) ==
    IF SameTarget(b, st.target)
    THEN [st EXCEPT !.target = b]
    ELSE IF LostLock(now, st.last_seen, lost_lock_timeout) THEN EmptyState ELSE st

LockedUpdateUnlockOnly(st, now, b) ==
    IF SameTarget(b, st.target)
    THEN [st EXCEPT !.last_seen = now, !.target = b]
    ELSE IF LostLock(now, st.last_seen, lost_lock_timeout)
         THEN [st EXCEPT !.locked = FALSE, !.progress = 0]
         ELSE st

LockedUpdate(st, now, b) ==
    IF SameTarget(b, st.target)
    THEN [st EXCEPT !.last_seen = now, !.target = b]
    ELSE IF LostLock(now, st.last_seen, lost_lock_timeout) THEN EmptyState ELSE st

\* Lines 137-139: switch the tracked target.
SwitchTargetKeepProgress(st, b) ==
    IF b # None /\ (st.target = None \/ b.identifier # st.target.identifier)
    THEN [st EXCEPT !.target = b]
    ELSE st

SwitchTargetAlwaysStore(st, b) ==
    IF b # None /\ (st.target = None \/ b.identifier # st.target.identifier)
    THEN [st EXCEPT !.target = b, !.progress = 0]
    ELSE IF b # None THEN [st EXCEPT !.target = b] ELSE st

SwitchTarget(st, b) ==
    IF b # None /\ (st.target = None \/ b.identifier # st.target.identifier)
    THEN [st EXCEPT !.target = b, !.progress = 0]
    ELSE st

LockReachedStrictly(progress, needed) == progress > needed

LockReached(progress, needed) == progress >= needed

\* Lines 141-149: accumulate or drop.
AccumulateUnclamped(st, now, b, d) ==
    IF SameTarget(b, st.target)
    THEN LET p == st.progress + d
         IN IF LockReached(p, lock_on_time)
            THEN [st EXCEPT !.progress = p, !.last_seen = now, !.locked = TRUE]
            ELSE [st EXCEPT !.progress = p, !.last_seen = now]
    ELSE [st EXCEPT !.progress = 0, !.target = None]

AccumulateKeepOnDrop(st, now, b, d) ==
    IF SameTarget(b, st.target)
    THEN LET p == st.progress + d
         IN IF LockReached(p, lock_on_time)
            THEN [st EXCEPT !.progress = lock_on_time, !.last_seen = now, !.locked = TRUE]
            ELSE [st EXCEPT !.progress = p, !.last_seen = now]
    ELSE [st EXCEPT !.target = None]

Accumulate(st, now, b, d) ==
    IF SameTarget(b, st.target)
    THEN LET p == st.progress + d
         IN IF LockReached(p, lock_on_time)
            THEN [st EXCEPT !.progress = lock_on_time, !.last_seen = now, !.locked = TRUE]
            ELSE [st EXCEPT !.progress = p, !.last_seen = now]
    ELSE [st EXCEPT !.progress = 0, !.target = None]

\* The _state update leaves behind, given the advanced clock and `best`.
UpdateState(st, now, b, d) ==
    IF st.locked /\ st.target # None
    THEN LockedUpdate(st, now, b)
    ELSE Accumulate(SwitchTarget(st, b), now, b, d)

Status(st) == LockState(st.target, st.progress, st.locked, st.last_seen)

\* ------------------------------------------------------------ the bridge
TargetChangedBothPresent(new, previous) ==
    IF new = None \/ previous = None THEN FALSE
    ELSE new.identifier # previous.identifier

TargetChanged(new, previous) ==
    IF new = None /\ previous = None THEN FALSE
    ELSE IF new = None \/ previous = None THEN TRUE
    ELSE new.identifier # previous.identifier

Call(op, target) == [op |-> op, target |-> target]

\* Lines 47-55: the controller calls of one step, in order.
NotifyWheneverLocked(st, previous) ==
    (IF TargetChanged(st.target, previous.target)
     THEN <<Call("set_tracking_target", st.target)>> ELSE <<>>)
    \o (IF st.locked /\ st.target # None
        THEN <<Call("on_lock", st.target)>>
        ELSE IF previous.locked /\ ~st.locked
             THEN <<Call("on_lock_lost", previous.target)>>
                  \o (IF st.target = None
                      THEN <<Call("set_tracking_target", None)>> ELSE <<>>)
             ELSE <<>>)

NotifyLockFirst(st, previous) ==
    (IF ~previous.locked /\ st.locked /\ st.target # None
     THEN <<Call("on_lock", st.target)>>
     ELSE IF previous.locked /\ ~st.locked
          THEN <<Call("on_lock_lost", previous.target)>>
               \o (IF st.target = None
                   THEN <<Call("set_tracking_target", None)>> ELSE <<>>)
          ELSE <<>>)
    \o (IF TargetChanged(st.target, previous.target)
        THEN <<Call("set_tracking_target", st.target)>> ELSE <<>>)

NotifyOnce(st, previous) ==
    (IF TargetChanged(st.target, previous.target)
     THEN <<Call("set_tracking_target", st.target)>> ELSE <<>>)
    \o (IF ~previous.locked /\ st.locked /\ st.target # None
        THEN <<Call("on_lock", st.target)>>
        ELSE IF previous.locked /\ ~st.locked
             THEN <<Call("on_lock_lost", previous.target)>>
             ELSE <<>>)

NotifyLostWithNew(st, previous) ==
    (IF TargetChanged(st.target, previous.target)
     THEN <<Call("set_tracking_target", st.target)>> ELSE <<>>)
    \o (IF ~previous.locked /\ st.locked /\ st.target # None
        THEN <<Call("on_lock", st.target)>>
        ELSE IF previous.locked /\ ~st.locked
             THEN <<Call("on_lock_lost", st.target)>>
                  \o (IF st.target = None
                      THEN <<Call("set_tracking_target", None)>> ELSE <<>>)
             ELSE <<>>)

Notify(st, previous) ==
    (IF TargetChanged(st.target, previous.target)
     THEN <<Call("set_tracking_target", st.target)>> ELSE <<>>)
    \o (IF ~previous.locked /\ st.locked /\ st.target # None
        THEN <<Call("on_lock", st.target)>>
        ELSE IF previous.locked /\ ~st.locked
             THEN <<Call("on_lock_lost", previous.target)>>
                  \o (IF st.target = None
                      THEN <<Call("set_tracking_target", None)>> ELSE <<>>)
             ELSE <<>>)

\* ------------------------------------------------------------- histories
NoRun == [ok |-> FALSE, id |-> "", sum |-> 0]

NextRun(r, b, d) ==
    IF r.ok /\ d >= 0 /\ b # None /\ r.id \in {"", b.identifier}
    THEN [ok |-> TRUE, id |-> b.identifier, sum |-> r.sum + d]
    ELSE NoRun

NextHeld(old, new, h, ids) ==
    IF ~new.locked THEN FALSE
    ELSE IF ~old.locked THEN TRUE
    ELSE h /\ old.target.identifier \in ids

\* The clock of the tick that locked, then of each tick on which the best
\* candidate carried the locked identifier; 0 while unlocked.
NextRefreshed(old, new, r, b, now) ==
    IF ~new.locked THEN 0
    ELSE IF ~old.locked \/ SameTarget(b, old.target) THEN now
    ELSE r

\* The identifier of an Optional[Target], "" for None.
IdOf(t) == IF t = None THEN "" ELSE t.identifier

\* What the controller was last told to track, after the calls from i on.
RECURSIVE TrackingAfter(_, _, _)
TrackingAfter(tr, calls, i) ==
    IF i > Len(calls) THEN tr
    ELSE IF calls[i].op = "set_tracking_target"
         THEN TrackingAfter(IdOf(calls[i].target), calls, i + 1)
         ELSE TrackingAfter(tr, calls, i + 1)

NoLockEvents == [last |-> "", id |-> "", n |-> 0]

\* The last lock event the controller received, after the calls from i on;
\* n counts the events up to MaxEvents.
RECURSIVE LockEventsAfter(_, _, _)
LockEventsAfter(ev, calls, i) ==
    IF i > Len(calls) THEN ev
    ELSE IF calls[i].op = "on_lock"
         THEN LockEventsAfter([last |-> "on_lock", id |-> IdOf(calls[i].target),
                               n |-> Min(ev.n + 1, MaxEvents)], calls, i + 1)
         ELSE IF calls[i].op = "on_lock_lost"
              THEN LockEventsAfter([last |-> "on_lock_lost", id |-> ev.id,
                                    n |-> Min(ev.n + 1, MaxEvents)], calls, i + 1)
              ELSE LockEventsAfter(ev, calls, i + 1)

\* ------------------------------------------------------------------ spec
Pending == [pending |-> TRUE]

NoPick == [origin |-> <<0, 0, 0>>, aim |-> <<0, 0, 0>>, targets |-> <<>>]

\* ------------------------------------------------------------ MissileCore
\* _normalize: each component over the norm, as fractions; the zero vector
\* stays zero.
Normalize(v) ==
    IF Norm(v) = 0 THEN <<Fraction(0, 1), Fraction(0, 1), Fraction(0, 1)>>
    ELSE <<Fraction(v[1], Norm(v)), Fraction(v[2], Norm(v)), Fraction(v[3], Norm(v))>>

Radars == {[radar |-> "r1"], [radar |-> "r2"]}
CorePositions == {<<0, 0, 0>>, <<10, 0, 0>>, <<3, 4, 0>>}
Headings == {<<1, 0, 0>>, <<0, 2, 0>>, <<3, 4, 0>>, <<0, 0, 0>>}

NoCall == [op |-> "", arg |-> None]

\* MissileCore(position, heading, radar): __post_init__ normalizes the
\* heading and notifies nobody.
NewCore(pos, h, r) ==
    /\ position = pos
    /\ heading = h
    /\ normalized_heading = Normalize(h)
    /\ radar = r
    /\ core_call = NoCall
    /\ delivered = <<>>

\* MissileCore()
DefaultCore == NewCore(<<0, 0, 0>>, <<1, 0, 0>>, None)

\* No status() call has returned yet.
NoReturn == [none |-> TRUE]

Addrs == 1..NumObjects

\* The Target objects the caller constructs first: one per address, the
\* identifiers taken in turn.
FirstObjects ==
    [a \in Addrs |-> Target(IF a % 2 = 1 THEN "a" ELSE "b", <<3, 0, 0>>, 1)]

InitEngine ==
    /\ state = EmptyState
    /\ current_time = 0
    /\ best = None
    /\ dt = 0
    /\ seen = {}
    /\ prev = EmptyState
    /\ run = [ok |-> TRUE, id |-> "", sum |-> 0]
    /\ held = FALSE
    /\ refreshed = 0
    /\ last_state = EmptyState
    /\ emitted = <<>>
    /\ tracking = ""
    /\ lock_events = NoLockEvents
    /\ heap = FirstObjects
    /\ target_at = 0
    /\ returned = NoReturn
    /\ last_op = ""

Init ==
    /\ max_range \in Ranges
    /\ fov_deg \in Fovs
    /\ lock_on_time \in LockTimes
    /\ lost_lock_timeout \in Timeouts
    /\ InitEngine
    /\ DefaultCore
    /\ pick_in = NoPick
    /\ pick_out = Pending

\* update(origin, aim, targets, dt); the first two conjuncts keep the clock
\* and progress within the bounds.
Update ==
    \E sighting \in SightingsOf[Self], d \in DtValues :
      \E new \in {UpdateState(state, AdvanceClock(current_time, d), sighting.best, d)} :
        /\ AdvanceClock(current_time, d) <= MaxTime
        /\ new.progress >= 0 - MaxDeficit
        /\ current_time' = AdvanceClock(current_time, d)
        /\ best' = sighting.best
        /\ dt' = d
        /\ seen' = sighting.seen
        /\ state' = new
        /\ prev' = state
        /\ run' = NextRun(run, sighting.best, d)
        /\ held' = NextHeld(state, new, held, sighting.seen)
        /\ refreshed' = NextRefreshed(state, new, refreshed, sighting.best,
                                      AdvanceClock(current_time, d))
        /\ UNCHANGED <<config_vars, core_vars, link_vars, pick_vars, status_vars>>

Next == Update

Spec == Init /\ [][Next]_vars

\* step(origin, aim, targets, dt): update, the controller calls, and the
\* snapshot by status(); the engine is driven through the bridge only.
\* Of the histories it records the previous state, the candidate and dt.
Step ==
    \E b \in {sighting.best : sighting \in SightingsOf[Self]}, d \in DtValues :
      \E new \in {UpdateState(state, AdvanceClock(current_time, d), b, d)} :
        /\ AdvanceClock(current_time, d) <= MaxTime
        /\ new.progress >= 0 - MaxDeficit
        /\ current_time' = AdvanceClock(current_time, d)
        /\ best' = b
        /\ dt' = d
        /\ state' = new
        /\ prev' = state
        /\ emitted' = Notify(new, last_state)
        /\ last_state' = Status(new)
        /\ tracking' = TrackingAfter(tracking, Notify(new, last_state), 1)
        /\ lock_events' = LockEventsAfter(lock_events, Notify(new, last_state), 1)
        /\ UNCHANGED <<config_vars, core_vars, pick_vars, status_vars,
                       seen, run, held, refreshed>>

NextLink == Step

SpecLink == Init /\ [][NextLink]_vars

\* ------------------------------------------- _pick_best as a pure function
PickTargets == {Target(id, pos, heat) : id \in Ids, pos \in Positions, heat \in Heats}

GridPicks ==
    [origin : Origins, aim : Aims, targets : ListsUpTo(PickTargets, MaxTargets)]

\* test_scores_by_heat_over_distance
HotFar == Target("hot_far", <<1200, 0, 0>>, 40)

WarmClose == Target("warm_close", <<300, 0, 0>>, 5)

TestPicks ==
    [origin : {<<0, 0, 0>>}, aim : {<<1, 0, 0>>},
     targets : {<<HotFar, WarmClose>>, <<WarmClose, HotFar>>}]

InitPick ==
    /\ \/ max_range \in Ranges /\ fov_deg \in Fovs /\ pick_in \in GridPicks
       \/ max_range = 1500 /\ fov_deg = 60 /\ pick_in \in TestPicks
    /\ lock_on_time \in LockTimes
    /\ lost_lock_timeout \in Timeouts
    /\ InitEngine
    /\ DefaultCore
    /\ pick_out = Pending

Pick ==
    /\ pick_out = Pending
    /\ pick_out' = PickBest(Self, pick_in.origin, pick_in.aim, pick_in.targets)
    /\ UNCHANGED <<config_vars, core_vars, engine_vars, link_vars, pick_in, status_vars>>

NextPick == Pick

SpecPick == InitPick /\ [][NextPick]_vars

\* ------------------------------------ status() and the objects it shares
\* Python passes objects by reference.  Here the caller's Target objects
\* live in `heap`, a target list is a list of addresses, and `state` keeps
\* showing _state by value: state.target is heap[target_at].  The histories
\* of the tick-by-tick claims are not recorded here.
AddrLists == ListsUpTo(Addrs, MaxTargets)

\* The objects of a target list.
Deref(h, addrs) == [i \in 1..Len(addrs) |-> h[addrs[i]]]

\* The address of the object _pick_best returned: the first of the list
\* that holds the value b (a later equal one never beats it).
AddrOfBest(h, addrs, b) ==
    IF b = None THEN 0
    ELSE addrs[CHOOSE i \in 1..Len(addrs) :
                   /\ h[addrs[i]] = b
                   /\ \A j \in 1..(i - 1) : h[addrs[j]] # b]

\* The object _state.target refers to after update: `best` where lines 127
\* and 138 assign it, None where lines 134 and 149 clear it, else as before.
TargetAtAfter(st, new, at, b, b_at) ==
    IF new.target = None THEN 0
    ELSE IF st.locked /\ st.target # None
         THEN (IF SameTarget(b, st.target) THEN b_at ELSE at)
         ELSE (IF b # None /\ (st.target = None \/ b.identifier # st.target.identifier)
               THEN b_at ELSE at)

\* status(): a new LockState holding the fields of _state; its target is
\* the very object _state.target refers to.
StatusObject(st, at) ==
    [target |-> at, progress |-> st.progress, locked |-> st.locked,
     last_seen |-> st.last_seen]

\* One engine, with the class's ratio of timeout to lock-on time.
InitStatus ==
    /\ max_range = 5
    /\ fov_deg = 45
    /\ lock_on_time = 2
    /\ lost_lock_timeout = 1
    /\ InitEngine
    /\ DefaultCore
    /\ last_state = EmptyState
    /\ emitted = <<>>
    /\ pick_in = NoPick
    /\ pick_out = None

UpdateObjects ==
    \E origin \in Origins, aim \in Aims, addrs \in AddrLists, d \in DtValues :
      \E b \in {PickBest(Self, origin, aim, Deref(heap, addrs))} :
        \E new \in {UpdateState(state, AdvanceClock(current_time, d), b, d)} :
          /\ AdvanceClock(current_time, d) <= MaxTime
          /\ new.progress >= 0 - MaxDeficit
          /\ current_time' = AdvanceClock(current_time, d)
          /\ state' = new
          /\ target_at' = TargetAtAfter(state, new, target_at, b, AddrOfBest(heap, addrs, b))
          /\ last_op' = "update"
          /\ UNCHANGED <<config_vars, core_vars, history_vars, link_vars, pick_vars, heap, returned>>

StatusCall ==
    /\ returned' = StatusObject(state, target_at)
    /\ last_op' = "status"
    /\ UNCHANGED <<config_vars, core_vars, engine_vars, link_vars, pick_vars, heap, target_at>>

\* The caller assigns a field of the LockState it got from status().
WriteState ==
    /\ returned # NoReturn
    /\ last_op = "status"
    /\ \/ \E p \in {0, lock_on_time} : returned' = [returned EXCEPT !.progress = p]
       \/ \E l \in BOOLEAN : returned' = [returned EXCEPT !.locked = l]
       \/ returned' = [returned EXCEPT !.target = 0]
    /\ last_op' = "write_state"
    /\ UNCHANGED <<config_vars, core_vars, engine_vars, link_vars, pick_vars, heap, target_at>>

\* The caller assigns a field of the Target that LockState carries.  Target
\* is a plain dataclass: the assignment shows wherever the object is held.
WriteTarget ==
    /\ returned # NoReturn
    /\ last_op = "status"
    /\ returned.target # 0
    /\ \E t \in {[heap[returned.target] EXCEPT !.identifier = id] : id \in Ids} :
         /\ heap' = [heap EXCEPT ![returned.target] = t]
         /\ state' = IF target_at = returned.target
                     THEN [state EXCEPT !.target = t] ELSE state
    /\ last_op' = "write_target"
    /\ UNCHANGED <<config_vars, core_vars, current_time, history_vars, link_vars, pick_vars,
                   target_at, returned>>

NextStatus == UpdateObjects \/ StatusCall \/ WriteState \/ WriteTarget

SpecStatus == InitStatus /\ [][NextStatus]_vars

\* state shows _state by value.
StatusViewOk ==
    IF target_at = 0 THEN state.target = None ELSE state.target = heap[target_at]

\* ------------------------------------------------- the steering shell
InitCore ==
    /\ max_range = 5
    /\ fov_deg = 45
    /\ lock_on_time = 2
    /\ lost_lock_timeout = 1
    /\ InitEngine
    /\ pick_in = NoPick
    /\ pick_out = Pending
    /\ \E pos \in CorePositions, h \in Headings, r \in {None} \cup Radars :
         NewCore(pos, h, r)

\* _push_course_update: the calls it makes on the radar r.
PushCourseUpdate(r, pos, nh) ==
    IF r = None THEN <<>>
    ELSE <<[radar |-> r, position |-> pos, heading |-> nh]>>

ConnectRadar ==
    \E r \in Radars :
        /\ radar' = r
        /\ delivered' = PushCourseUpdate(r, position, normalized_heading)
        /\ core_call' = [op |-> "connect_radar", arg |-> r]
        /\ UNCHANGED <<config_vars, engine_vars, link_vars, pick_vars, status_vars,
                       position, heading, normalized_heading>>

SteerPushFirst ==
    \E h \in Headings :
        /\ heading' = h
        /\ normalized_heading' = Normalize(h)
        /\ delivered' = PushCourseUpdate(radar, position, normalized_heading)
        /\ core_call' = [op |-> "steer", arg |-> h]
        /\ UNCHANGED <<config_vars, engine_vars, link_vars, pick_vars, status_vars,
                       position, radar>>

Steer ==
    \E h \in Headings :
        /\ heading' = h
        /\ normalized_heading' = Normalize(h)
        /\ delivered' = PushCourseUpdate(radar, position, Normalize(h))
        /\ core_call' = [op |-> "steer", arg |-> h]
        /\ UNCHANGED <<config_vars, engine_vars, link_vars, pick_vars, status_vars,
                       position, radar>>

Relocate ==
    \E pos \in CorePositions :
        /\ position' = pos
        /\ delivered' = PushCourseUpdate(radar, pos, normalized_heading)
        /\ core_call' = [op |-> "relocate", arg |-> pos]
        /\ UNCHANGED <<config_vars, engine_vars, link_vars, pick_vars, status_vars,
                       heading, normalized_heading, radar>>

NextCore == ConnectRadar \/ Steer \/ Relocate

SpecCore == InitCore /\ [][NextCore]_vars

\* =================================================================== claims

\* C1: from the empty state, while one and the same candidate is the best
\* visible candidate on every tick and every dt >= 0, the engine is locked
\* with progress = lock_on_time once the dt values sum to at least
\* lock_on_time, and unlocked while they sum to less, however the time is
\* split into ticks.
C1_LockAfterLockOnTime ==
    (run.ok /\ run.id # "") =>
        IF run.sum >= lock_on_time
        THEN state.locked /\ state.progress = lock_on_time
        ELSE ~state.locked

C1_Witness ==
    /\ run.ok /\ run.id # ""
    /\ run.sum >= lock_on_time
    /\ dt > 0 /\ dt < lock_on_time
    /\ state.locked

\* C2: an update that finds the engine locked and the locked target not
\* visible leaves it locked on the same target while clock - last_seen is
\* at most lost_lock_timeout, and returns the empty state once it is more.
C2_OcclusionTolerance ==
    (prev.locked /\ prev.target.identifier \notin seen) =>
        IF current_time - prev.last_seen <= lost_lock_timeout
        THEN state.locked /\ state.target = prev.target
        ELSE state = EmptyState

C2_Witness ==
    /\ prev.locked /\ prev.target.identifier \notin seen
    /\ lost_lock_timeout > 0
    /\ current_time - prev.last_seen = lost_lock_timeout
    /\ state.locked

\* C3: a locked engine whose locked target is visible on every tick stays
\* locked on that target, whatever other candidates are present.
C3_KeepsVisibleTarget ==
    [][(state.locked /\ held /\ state.target.identifier \in seen') =>
           (/\ state'.locked
            /\ state'.target # None
            /\ state'.target.identifier = state.target.identifier)]_vars

\* C4 as claimed, already for a dt >= 0 and a previous target that has
\* progress: an update that finds the engine unlocked with a tracked target
\* and a best candidate of another identifier returns that candidate as
\* target with progress 0.
C4_SwitchReturnsZero ==
    (/\ dt >= 0
     /\ prev.progress > 0
     /\ ~prev.locked
     /\ prev.target # None
     /\ best # None
     /\ best.identifier # prev.target.identifier) =>
        (state.target = best /\ state.progress = 0)

\* C4 amended: such an update returns that candidate as target with the
\* progress of this call's dt alone: lock_on_time and locked if dt reaches
\* lock_on_time, dt and unlocked otherwise; nothing of the previous
\* target's progress is carried over.
C4_SwitchRestartsProgress ==
    (/\ ~prev.locked
     /\ prev.target # None
     /\ best # None
     /\ best.identifier # prev.target.identifier) =>
        /\ state.target = best
        /\ state.locked = (dt >= lock_on_time)
        /\ state.progress = (IF dt >= lock_on_time THEN lock_on_time ELSE dt)

C4_Witness ==
    /\ ~prev.locked
    /\ prev.target # None
    /\ best # None
    /\ best.identifier # prev.target.identifier
    /\ prev.progress > 0
    /\ dt > 0
    /\ state.progress = dt
    /\ ~state.locked

\* C5: an update with dt < 0 leaves the state and the clock that the same
\* update with dt = 0 leaves.
C5_NegativeDtIsZeroDt ==
    [][dt' < 0 =>
           (/\ current_time' = AdvanceClock(current_time, 0)
            /\ state' = UpdateState(state, AdvanceClock(current_time, 0), best', 0))]_vars

\* C6: locked implies a target and progress = lock_on_time; progress > 0
\* implies a target.
C6_LockStateInvariant ==
    /\ state.locked => (state.target # None /\ state.progress = lock_on_time)
    /\ state.progress > 0 => state.target # None

C6_Witness ==
    /\ state.locked
    /\ state.target # None
    /\ lock_on_time > 0
    /\ prev.locked
    /\ dt > 0

\* C7: 0 <= progress <= lock_on_time in every reachable state.
C7_ProgressInRange ==
    0 <= state.progress /\ state.progress <= lock_on_time

\* C8: a target that an update starts to track, switches to, accumulates
\* progress for, refreshes or locks carries the identifier of that call's
\* best candidate, which is one of its visible candidates; an update that finds the engine unlocked
\* and no candidate visible returns no target and unlocked.
C8_OnlyVisibleSelected ==
    /\ (state.target # None /\ state # prev) =>
           (/\ best # None
            /\ state.target.identifier = best.identifier
            /\ state.target.identifier \in seen)
    /\ (seen = {} /\ ~prev.locked) => (state.target = None /\ ~state.locked)

C8_Witness ==
    /\ state.target # None
    /\ prev.target # None
    /\ prev.target.identifier # state.target.identifier
    /\ prev.target.identifier \notin seen
    /\ state.target.identifier \in seen

\* C9: _pick_best returns the visible target of greatest score
\* heat_signature/distance + max(max_range - distance, 0)/max_range, the
\* first of them in input order when several share it, and None exactly
\* when no target is visible; in the test's scene warm_close is returned
\* in either input order.
ClaimedScore(t) ==
    LET distance == Distance(pick_in.origin, t.position)
    IN Fraction(t.heat_signature * max_range + Max(max_range - distance, 0) * distance,
                distance * max_range)

Exceeds(s, t) == s[1] * t[2] > t[1] * s[2]

VisibleAt(i) == IsVisible(Self, pick_in.origin, pick_in.aim, pick_in.targets[i].position)

Greatest(i) ==
    /\ VisibleAt(i)
    /\ \A j \in 1..Len(pick_in.targets) :
           VisibleAt(j) =>
               ~Exceeds(ClaimedScore(pick_in.targets[j]), ClaimedScore(pick_in.targets[i]))

C9_PickBestIsFirstGreatest ==
    pick_out # Pending =>
        /\ IF \E i \in 1..Len(pick_in.targets) : VisibleAt(i)
           THEN \E i \in 1..Len(pick_in.targets) :
                    /\ Greatest(i)
                    /\ \A j \in 1..(i - 1) : ~Greatest(j)
                    /\ pick_out = pick_in.targets[i]
           ELSE pick_out = None
        /\ pick_in \in TestPicks => pick_out = WarmClose

C9_Witness ==
    /\ pick_out # Pending
    /\ Len(pick_in.targets) = 2
    /\ Greatest(1) /\ Greatest(2)
    /\ pick_in.targets[1] # pick_in.targets[2]
    /\ pick_out = pick_in.targets[1]

\* C10: a step calls on_lock exactly once, with the new state's target, if
\* the previous snapshot is unlocked and the new state locked, and not at
\* all otherwise; it calls on_lock_lost exactly once, with the previous
\* snapshot's target, if the previous snapshot is locked and the new state
\* unlocked, and not at all otherwise.
IsOnLock(c) == c.op = "on_lock"

IsOnLockLost(c) == c.op = "on_lock_lost"

C10_LockEventsOncePerTransition ==
    [][/\ SelectSeq(emitted', IsOnLock) =
              (IF ~last_state.locked /\ state'.locked
               THEN <<Call("on_lock", state'.target)>> ELSE <<>>)
       /\ SelectSeq(emitted', IsOnLockLost) =
              (IF last_state.locked /\ ~state'.locked
               THEN <<Call("on_lock_lost", last_state.target)>> ELSE <<>>)]_vars

C10_Witness ==
    /\ SelectSeq(emitted, IsOnLockLost) # <<>>
    /\ SelectSeq(emitted, IsOnLock) = <<>>
    /\ ~state.locked

\* C11: a step whose new target identifier differs from the previous
\* snapshot's (one of them absent included) calls set_tracking_target with
\* the new state's target before any on_lock or on_lock_lost; a step whose
\* identifiers agree and that is not a lock-lost step does not call
\* set_tracking_target.
IsSetTracking(c) == c.op = "set_tracking_target"

C11_TrackingChangeNotified ==
    [][IF IdOf(state'.target) # IdOf(last_state.target)
       THEN /\ emitted' # <<>>
            /\ emitted'[1] = Call("set_tracking_target", state'.target)
       ELSE ~(last_state.locked /\ ~state'.locked) =>
                SelectSeq(emitted', IsSetTracking) = <<>>]_vars

C11_Witness ==
    /\ Len(emitted) = 2
    /\ emitted[1] = Call("set_tracking_target", state.target)
    /\ emitted[2] = Call("on_lock", state.target)
    /\ prev.target # None

\* C12: a step from a locked previous snapshot to an unlocked new state
\* without target calls set_tracking_target(None), on_lock_lost(previous
\* target) and set_tracking_target(None), in this order.
C12_DualNotificationOnLoss ==
    [][(last_state.locked /\ ~state'.locked /\ state'.target = None) =>
           emitted' = <<Call("set_tracking_target", None),
                        Call("on_lock_lost", last_state.target),
                        Call("set_tracking_target", None)>>]_vars

C12_Witness ==
    /\ prev.locked
    /\ ~state.locked
    /\ state.target = None
    /\ Len(emitted) = 3
    /\ emitted[2].op = "on_lock_lost"
    /\ emitted[2].target = prev.target

\* C13: no assignment a caller makes through the value status() returned,
\* to its fields or to the Target it carries, changes the engine's state,
\* and no later update changes what status() returned.
C13_StatusIsDefensiveCopy ==
    [][/\ (last_op' \in {"write_state", "write_target"} /\ state.progress > 0) =>
              (state' = state /\ current_time' = current_time)
       /\ (last_op' = "update" /\ returned # NoReturn) =>
              /\ returned' = returned
              /\ returned.target # 0 => heap'[returned.target] = heap[returned.target]]_vars

\* C14: every connect_radar, steer and relocate call applies its mutation;
\* with a radar connected once the mutation is made it delivers exactly one
\* on_course_update, to that radar, carrying the position and the normalized
\* heading as the call leaves them; with none connected it delivers nothing.
C14_CourseUpdatePerCall ==
    [][/\ delivered' = IF radar' = None THEN <<>>
                       ELSE <<[radar |-> radar', position |-> position',
                               heading |-> Normalize(heading')]>>
       /\ core_call'.op = "connect_radar" =>
              (radar' = core_call'.arg /\ position' = position /\ heading' = heading)
       /\ core_call'.op = "steer" =>
              (heading' = core_call'.arg /\ position' = position /\ radar' = radar)
       /\ core_call'.op = "relocate" =>
              (position' = core_call'.arg /\ heading' = heading /\ radar' = radar)]_vars

C14_Witness ==
    /\ core_call = [op |-> "steer", arg |-> <<3, 4, 0>>]
    /\ position = <<10, 0, 0>>
    /\ delivered = <<[radar |-> [radar |-> "r2"], position |-> <<10, 0, 0>>,
                      heading |-> <<<<3, 5>>, <<4, 5>>, <<0, 1>>>>]>>

\* C15: an update made while unlocked with no visible candidate returns
\* progress 0 and no target, whatever progress had accumulated; and from
\* that state a tick with a candidate accumulates from zero: progress is
\* that tick's dt, or lock_on_time if dt alone reaches it.
C15_AcquisitionNeedsUnbrokenVisibility ==
    [][/\ (~state.locked /\ seen' = {}) =>
              (state'.progress = 0 /\ state'.target = None /\ ~state'.locked)
       /\ (~state.locked /\ state.target = None /\ state.progress = 0 /\ best' # None) =>
              /\ state'.target = best'
              /\ state'.progress = IF dt' >= lock_on_time THEN lock_on_time ELSE dt']_vars

C15_Witness ==
    /\ ~prev.locked
    /\ prev.progress > 0
    /\ prev.target # None
    /\ seen = {}
    /\ state.progress = 0
    /\ state.target = None

\* C16: an update made while locked, with the best candidate absent or of
\* another identifier and the advanced clock at most lost_lock_timeout past
\* last_seen, advances the clock and leaves target, progress, locked and
\* last_seen as they were.
C16_OccludedWithinToleranceIsFrame ==
    [][(/\ state.locked
        /\ ~SameTarget(best', state.target)
        /\ current_time' - state.last_seen <= lost_lock_timeout) =>
           /\ state' = state
           /\ current_time' = current_time + Max(dt', 0)]_vars

C16_Witness ==
    /\ prev.locked
    /\ best # None
    /\ ~SameTarget(best, prev.target)
    /\ dt > 0
    /\ current_time - prev.last_seen = lost_lock_timeout
    /\ state = prev

\* C17: an update made while locked whose best candidate has the locked
\* identifier sets last_seen to the clock, stores the new candidate record
\* and changes nothing else; so an occlusion is measured from the last such
\* tick (or the lock), and no occlusion of at most lost_lock_timeout since
\* then releases the lock, however much occlusion came before it.
C17_OcclusionsDoNotAccumulate ==
    [][/\ (state.locked /\ SameTarget(best', state.target)) =>
              state' = [state EXCEPT !.last_seen = current_time', !.target = best']
       /\ (/\ state.locked
           /\ ~SameTarget(best', state.target)
           /\ current_time' - refreshed <= lost_lock_timeout) =>
              (state'.locked /\ state'.target = state.target)]_vars

C17_Witness ==
    /\ prev.locked
    /\ SameTarget(best, prev.target)
    /\ prev.last_seen < current_time - Max(dt, 0)
    /\ state.locked
    /\ state.last_seen = current_time
    /\ state.target = best
    /\ state.target # prev.target
    /\ state.progress = prev.progress

\* C20: an update made while locked either stays locked on the same
\* identifier or returns the empty state; a target of another identifier
\* is taken up only by a later update, also when it is the best candidate
\* of the tick that resets.
C20_NoDirectLockTransfer ==
    [][state.locked =>
           \/ state'.locked /\ SameTarget(state'.target, state.target)
           \/ state' = EmptyState]_vars

C20_Witness ==
    /\ prev.locked
    /\ best # None
    /\ ~SameTarget(best, prev.target)
    /\ state = EmptyState

\* C18: over the steps of the bridge, on_lock and on_lock_lost alternate,
\* on_lock first: a step makes at most one of the two calls, on_lock only
\* when the last lock event was not on_lock, on_lock_lost only when it was,
\* and then with a target whose identifier is the one that on_lock carried.
IsLockEvent(c) == IsOnLock(c) \/ IsOnLockLost(c)

C18_LockEventsAlternate ==
    [][LET events == SelectSeq(emitted', IsLockEvent)
       IN /\ Len(events) <= 1
          /\ (events # <<>> /\ IsOnLock(events[1])) =>
                 /\ lock_events.last # "on_lock"
                 /\ events[1].target # None
          /\ (events # <<>> /\ IsOnLockLost(events[1])) =>
                 /\ lock_events.last = "on_lock"
                 /\ events[1].target # None
                 /\ events[1].target.identifier = lock_events.id]_vars

C18_Witness ==
    /\ lock_events.n = MaxEvents
    /\ lock_events.last = "on_lock_lost"
    /\ lock_events.id = "b"
    /\ SelectSeq(emitted, IsOnLockLost) = <<Call("on_lock_lost", prev.target)>>
    /\ best # None
    /\ best.identifier = "a"

\* C19: after every step the identifier last passed to set_tracking_target
\* ("" if none or None was passed) is the identifier of the engine's target,
\* and when on_lock is called the set_tracking_target calls made so far
\* have left the controller tracking the identifier on_lock carries.
C19_TrackingAgreesWithEngine ==
    /\ tracking = IdOf(state.target)
    /\ IdOf(last_state.target) = IdOf(state.target)
    /\ \A i \in 1..Len(emitted) :
           IsOnLock(emitted[i]) =>
               /\ TrackingAfter(IdOf(prev.target), SubSeq(emitted, 1, i - 1), 1)
                      = IdOf(emitted[i].target)
               /\ \A j \in (i + 1)..Len(emitted) : ~IsSetTracking(emitted[j])

C19_Witness ==
    /\ emitted = <<Call("set_tracking_target", state.target),
                   Call("on_lock", state.target)>>
    /\ prev.target # None
    /\ tracking = state.target.identifier
    /\ tracking # prev.target.identifier

\* C21: an update made while unlocked whose best candidate carries the
\* tracked identifier keeps the stored target record; the record is stored
\* when tracking of the identifier begins and is the one on_lock receives
\* on the tick that locks; a stored record gives way to one of the same
\* identifier only on a locked tick whose best candidate is that target.
C21_RecordKeptWhileAcquiring ==
    [][/\ (~state.locked /\ SameTarget(best', state.target)) =>
              state'.target = state.target
       /\ (~state.locked /\ best' # None /\ ~SameTarget(best', state.target)) =>
              state'.target = best'
       /\ (/\ SameTarget(state'.target, state.target)
           /\ state'.target # state.target) =>
              (state.locked /\ SameTarget(best', state.target) /\ state'.target = best')
       /\ \A i \in 1..Len(emitted') :
              IsOnLock(emitted'[i]) =>
                  /\ emitted'[i].target = state'.target
                  /\ SameTarget(best', state.target) => emitted'[i].target = state.target]_vars

C21_Witness ==
    /\ ~prev.locked
    /\ state.locked
    /\ SameTarget(best, prev.target)
    /\ best # prev.target
    /\ state.target = prev.target
    /\ SelectSeq(emitted, IsOnLock) = <<Call("on_lock", prev.target)>>

====
